---- MODULE Spec2Model ----
(***************************************************************************)
(* Model of the quiz-question generation pipeline of                       *)
(* app_be/services/llm_service.py: the transport retry around the LLM      *)
(* call, the JSON extraction, validate_question and the recursive retry    *)
(* of generate_questions_from_content.                                     *)
(***************************************************************************)
EXTENDS Integers, Sequences, FiniteSets, TLC

\* ------------------------------------------------------------------------
\* Bounds of the model
\* ------------------------------------------------------------------------
\* largest value of the `retries` argument explored
MaxRetries == 2
\* longest `answers` list explored by the validator specification
MaxAnswers == 5
\* longest JSON array explored by the extractor specification
MaxItems == 2

\* largest `retries` of the first of two concurrent calls
MaxPairRetries == 1

\* topic ids of the database are 1..MaxTopic
MaxTopic == 3

\* HTTP status codes of the responses
Ok == 200
NotFound == 404
ServerError == 500

\* stop_after_attempt(3) of the tenacity decorator
TransportAttempts == 3
\* "Check if there are at least 4 answers"
MinAnswers == 4

\* ------------------------------------------------------------------------
\* JSON values met by the pipeline
\* ------------------------------------------------------------------------
\* A candidate question as json.loads delivers it.  kind is the Python type
\* of the value ("object" a dict, "number" an int, "emptystr" the string "");
\* a field the object does not carry has the value "MISSING";
\* answers_kind is "list", "null" (JSON null) or "missing" (key absent).
\* An answer is abbreviated by what a.get("is_correct", False) meets:
\*   "true" / "false"   the JSON booleans
\*   "string"           a non-empty JSON string such as "false" (truthy)
\*   "absent"           an object without the key is_correct
\*   "notobj"           the answer is not a JSON object (no .get)
AnswerValues == {"true", "false", "string", "absent", "notobj"}

MkQuestion(t, qt, d, as) ==
    [kind |-> "object", text |-> t, question_type |-> qt, difficulty |-> d,
     answers_kind |-> "list", answers |-> as]

NoQuestion == [kind |-> "none", text |-> "MISSING", question_type |-> "MISSING",
               difficulty |-> "MISSING", answers_kind |-> "missing", answers |-> <<>>]

\* class QuestionType(str, Enum)
QuestionType == {"multiple_choice", "open_ended"}
\* class DifficultyLevel(str, Enum)
DifficultyLevel == {"easy", "medium", "hard"}

\* Python truthiness of a.get("is_correct", False)
Truthy(a) == a \in {"true", "string"}

\* sum(1 for a in answers if a.get("is_correct", False))
CorrectCount(as) == Cardinality({i \in 1..Len(as) : Truthy(as[i])})

\* all(field in question for field in required_fields) on a dict
HasRequiredFields(q) ==
    /\ q.text # "MISSING"
    /\ q.question_type # "MISSING"
    /\ q.difficulty # "MISSING"
    /\ q.answers_kind # "missing"

\* validate_question(question, question_type): "true", "false", or "raise"
\* when the body throws (TypeError / AttributeError on a malformed value).
\* The parameter question_type is never read by the body.
validate_question(question, question_type) ==
    IF question.kind = "number" THEN "raise"             \* "text" in 42
    ELSE IF question.kind = "emptystr" THEN "false"      \* "text" in ""
    ELSE IF ~HasRequiredFields(question) THEN "false"
    ELSE IF question.question_type = "multiple_choice"
         THEN IF question.answers_kind # "list" THEN "raise"   \* len(None)
              ELSE IF Len(question.answers) < MinAnswers THEN "false"
              ELSE IF \E i \in 1..Len(question.answers) :
                          question.answers[i] = "notobj" THEN "raise"
              ELSE IF CorrectCount(question.answers) # 1 THEN "false"
              ELSE "true"
    ELSE "true"

\* ------------------------------------------------------------------------
\* Inputs and service responses explored
\* ------------------------------------------------------------------------
GoodMC        == MkQuestion("q", "multiple_choice", "easy", <<"true", "false", "false", "false">>)
GoodOE        == MkQuestion("q", "open_ended", "medium", <<"true">>)
ThreeAnswers  == MkQuestion("q", "multiple_choice", "easy", <<"true", "false", "false">>)
TwoCorrect    == MkQuestion("q", "multiple_choice", "hard", <<"true", "true", "false", "false">>)
StringCorrect == MkQuestion("q", "multiple_choice", "easy", <<"string", "false", "false", "absent">>)
EmptyTextOE   == MkQuestion("", "open_ended", "bogus", <<>>)
BrokenAnswer  == MkQuestion("q", "multiple_choice", "easy", <<"true", "notobj", "false", "false">>)
NoDifficulty  == MkQuestion("q", "multiple_choice", "MISSING", <<"true", "false", "false", "false">>)
NumberValue   == [NoQuestion EXCEPT !.kind = "number"]
EmptyString   == [NoQuestion EXCEPT !.kind = "emptystr"]

\* A raw response text, by the form of its content: "array" a JSON array
\* of the items, "object" one bare JSON object, "number" a JSON number,
\* "prose" text holding no JSON at all, "fenced" the JSON array of the
\* items inside a fenced code block between two lines of prose, "concat"
\* the object items[1] followed by a second object cut off inside its text.
Raw(form, items) == [form |-> form, items |-> items]
NoResponse == Raw("none", <<>>)

Responses ==
    { Raw("array", <<GoodMC>>),
      Raw("array", <<GoodMC, GoodOE>>),
      Raw("array", <<ThreeAnswers, GoodMC, TwoCorrect>>),
      Raw("array", <<ThreeAnswers, NoDifficulty>>),
      Raw("array", <<StringCorrect>>),
      Raw("array", <<EmptyTextOE>>),
      Raw("array", <<GoodMC, BrokenAnswer>>),
      Raw("array", <<>>),
      Raw("object", <<GoodMC>>),
      Raw("number", <<NumberValue>>),
      Raw("prose", <<>>) }

\* contents: the content_type of each item; "NULL" is a row whose
\* content_type column is NULL (the column is nullable)
ContentsChoices == { <<"definition", "lesson">>, <<"definition", "NULL">> }

Requests ==
    [contents : ContentsChoices, question_type : QuestionType,
     question_count : {1, 2}, retries : 0..MaxRetries]

\* ------------------------------------------------------------------------
\* State
\* ------------------------------------------------------------------------
VARIABLES
    request,        \* arguments of each generate call
    pc,             \* where each call stands
    stack,          \* frames of the recursion: [retries, site]
    tries,          \* invocations made by the running call_llm_api_with_retry
    invocations,    \* invocations of call_llm_api made by the call so far
    response,       \* local `response` of the running frame
    questions,      \* local `questions` of the running frame
    validated,      \* local `validated_questions` of the running frame
    retval,         \* value being returned through the frames
    result,         \* value delivered to the caller
    attempts,       \* frames of generate_questions_from_content entered
    outcomes,       \* how each finished attempt ended
    candidate,      \* validator specification: argument `question`
    expectedType,   \* validator specification: argument `question_type`
    verdict,        \* validator specification: outcome of validate_question
    rawText,        \* extractor specification: argument `response`
    extracted,      \* extractor specification: outcome of the extraction
    strategies,     \* extractor specification: the strategies run, in order
    topics,         \* endpoint specification: ids of the Topic rows of `db`
    quizReq,        \* endpoint specification: argument `quiz_req`
    epc,            \* endpoint specification: where generate_quiz stands
    httpStatus,     \* endpoint specification: status of the response, 0 before
    environ,        \* the process environment after load_dotenv()
    LLM_API_KEY,    \* module global, "unbound" until the module is imported
    ANTHROPIC_MODEL \* module global, "unbound" until the module is imported

validatorVars == <<candidate, expectedType, verdict>>

extractorVars == <<rawText, extracted, strategies>>

endpointVars == <<topics, quizReq, epc, httpStatus>>

serviceVars == <<environ, LLM_API_KEY, ANTHROPIC_MODEL>>

pipelineVars == <<request, pc, stack, tries, invocations, response, questions,
                  validated, retval, result, attempts, outcomes>>

vars == <<pipelineVars, validatorVars, extractorVars, endpointVars, serviceVars>>

Top(c) == stack[c][Len(stack[c])]
retries(c) == Top(c).retries
Pop(s) == SubSeq(s, 1, Len(s) - 1)

\* ------------------------------------------------------------------------
\* Pure steps of the pipeline
\* ------------------------------------------------------------------------
\* The prompt loop calls content_type.upper(): None has no upper()
PromptRaises(contents) == \E i \in 1..Len(contents) : contents[i] = "NULL"

\* An outcome of a parse or of the extraction: a returned value, a list
\* ("list") or any other JSON value ("single"), or an exception.
Returned(shape, items) == [ok |-> TRUE, shape |-> shape, items |-> items]
Raised == [ok |-> FALSE, shape |-> "none", items |-> <<>>]

\* what repair_json leaves of a question cut off inside its text
Fragment == [NoQuestion EXCEPT !.kind = "object", !.text = "q"]

\* an answer read as a value of its own: an object with a text and none of
\* the other question fields, or the non-object it is
AnswerItem(a) ==
    IF a = "notobj" THEN NumberValue
    ELSE [NoQuestion EXCEPT !.kind = "object", !.text = "a"]

AnswerItems(q) == [i \in 1..Len(q.answers) |-> AnswerItem(q.answers[i])]

\* json.loads(text): the JSON forms parse to their value, every other
\* text raises JSONDecodeError
Loads(raw) ==
    CASE raw.form = "array"  -> Returned("list", raw.items)
      [] raw.form = "object" -> Returned("single", raw.items)
      [] raw.form = "number" -> Returned("single", raw.items)
      [] OTHER               -> Raised

\* json.loads(repair_json(text)) of lines 45-46.  repair_json skips the
\* text around JSON values and closes what is left open: a fenced array
\* comes back as the array, an object followed by a cut-off object as the
\* list of the object and the repaired fragment.  On prose it finds
\* nothing and yields either "", which json.loads refuses, or the JSON
\* text of an empty string.
RepairOutcomes(raw) ==
    CASE raw.form = "fenced" -> {Returned("list", raw.items)}
      [] raw.form = "concat" -> {Returned("list", <<raw.items[1], Fragment>>)}
      [] raw.form = "prose"  -> {Raised, Returned("single", <<EmptyString>>)}
      [] OTHER               -> {Loads(raw)}

\* re.search(r"\[\s*\{.*\}\s*\]", response, re.DOTALL): the text from the
\* first "[" that is followed by "{" to the last "}" that is followed by
\* "]".  In an array of objects, bare or fenced, that is the array; in a
\* single object, also when a cut-off object follows it, it is the answers
\* array of the object.
ArrayMatch(raw) ==
    CASE raw.form \in {"array", "fenced"} /\ raw.items # <<>> ->
             [found |-> TRUE, text |-> Raw("array", raw.items)]
      [] raw.form \in {"object", "concat"} /\ raw.items[1].answers # <<>>
                                           /\ raw.items[1].answers[1] # "notobj" ->
             [found |-> TRUE, text |-> Raw("array", AnswerItems(raw.items[1]))]
      [] OTHER -> [found |-> FALSE, text |-> NoResponse]

\* re.finditer(r"\{(?:[^{}]|(?:\{[^{}]*\}))*\}", response): the balanced
\* brace texts, nested at most once, each parsed on its own
ObjectMatches(raw) ==
    CASE raw.form \in {"array", "fenced"}  -> raw.items
      [] raw.form \in {"object", "concat"} -> <<raw.items[1]>>
      [] OTHER                             -> <<>>

\* lines 48-76: the array search and the scan for single objects
FallbackOutcomes(raw) ==
    IF ArrayMatch(raw).found
    THEN IF Loads(ArrayMatch(raw).text).ok
         THEN {Loads(ArrayMatch(raw).text)}
         ELSE RepairOutcomes(ArrayMatch(raw).text)
    ELSE IF ObjectMatches(raw) # <<>>
         THEN {Returned("list", ObjectMatches(raw))}
         ELSE {Raised}

\* variant: the repair pass of lines 44-46 is left out
ExtractOutcomes_NoRepair(raw) ==
    IF Loads(raw).ok THEN {Loads(raw)} ELSE FallbackOutcomes(raw)

\* variant: only the searches of lines 48-76 are made
ExtractOutcomes_SearchOnly(raw) == FallbackOutcomes(raw)

\* extract_json_from_response: the set of outcomes for a raw text
ExtractOutcomes(raw) ==
    IF Loads(raw).ok
    THEN {Loads(raw)}
    ELSE UNION { IF r.ok THEN {r} ELSE FallbackOutcomes(raw) :
                 r \in RepairOutcomes(raw) }

\* the strategies extract_json_from_response runs on a raw text before it
\* ends with outcome o: json.loads of the whole text (line 41), the repair
\* (lines 45-46), the array search with its own parse and repair (lines
\* 51-58) and, only when the array search matched nothing, the scan for
\* single objects (lines 61-74)
StrategiesRun(raw, o) ==
    IF Loads(raw).ok THEN <<"whole">>
    ELSE IF o.ok /\ o \in RepairOutcomes(raw) THEN <<"whole", "repair">>
    ELSE IF ArrayMatch(raw).found THEN <<"whole", "repair", "array">>
    ELSE <<"whole", "repair", "array", "scan">>

\* "if not isinstance(questions, list): questions = [questions]"
AsList(o) == IF o.shape = "list" THEN o.items ELSE <<o.items[1]>>

\* the validation loop: does some validate_question call throw?
ValidationRaises(qs, qt) ==
    \E i \in 1..Len(qs) : validate_question(qs[i], qt) = "raise"

\* the validation loop: the questions appended to validated_questions
RECURSIVE ValidatedOf(_, _)
ValidatedOf(qs, qt) ==
    IF qs = <<>> THEN <<>>
    ELSE IF validate_question(Head(qs), qt) = "true"
         THEN <<Head(qs)>> \o ValidatedOf(Tail(qs), qt)
         ELSE ValidatedOf(Tail(qs), qt)

\* ------------------------------------------------------------------------
\* Actions
\* ------------------------------------------------------------------------
Enter(c, n, site) ==
    /\ stack' = [stack EXCEPT ![c] = Append(@, [retries |-> n, site |-> site])]
    /\ attempts' = [attempts EXCEPT ![c] = @ + 1]
    /\ pc' = [pc EXCEPT ![c] = "build"]
    /\ response' = [response EXCEPT ![c] = NoResponse]
    /\ questions' = [questions EXCEPT ![c] = <<>>]
    /\ validated' = [validated EXCEPT ![c] = <<>>]
    /\ tries' = [tries EXCEPT ![c] = 0]

Ended(c, how) == outcomes' = [outcomes EXCEPT ![c] = Append(@, how)]

\* the caller invokes generate_questions_from_content
Call(c) ==
    /\ pc[c] = "idle"
    /\ Enter(c, request[c].retries, "caller")
    /\ UNCHANGED <<validatorVars, extractorVars, endpointVars, serviceVars, request, invocations, retval, result, outcomes>>

\* lines 110-168: the prompt is built, outside the try block
BuildPrompt(c) ==
    /\ pc[c] = "build"
    /\ pc' = [pc EXCEPT ![c] = IF PromptRaises(request[c].contents)
                               THEN "raising" ELSE "call"]
    /\ UNCHANGED <<validatorVars, extractorVars, endpointVars, serviceVars, request, stack, tries, invocations, response, questions,
                   validated, retval, result, attempts, outcomes>>

\* variant: the transport retry also looks at the text: a text that is no
\* JSON is kept and the service is invoked again
ServiceReturns_RetriesBadText(c, r) ==
    /\ pc[c] = "call"
    /\ invocations' = [invocations EXCEPT ![c] = @ + 1]
    /\ tries' = [tries EXCEPT ![c] = @ + 1]
    /\ response' = [response EXCEPT ![c] = r]
    /\ pc' = [pc EXCEPT ![c] = IF Loads(r).ok \/ tries[c] + 1 >= TransportAttempts
                               THEN "extract" ELSE "call"]
    /\ UNCHANGED <<validatorVars, extractorVars, endpointVars, serviceVars, request, stack, questions, validated, retval, result,
                   attempts, outcomes>>

\* one invocation of call_llm_api that returns text r
ServiceReturns(c, r) ==
    /\ pc[c] = "call"
    /\ invocations' = [invocations EXCEPT ![c] = @ + 1]
    /\ tries' = [tries EXCEPT ![c] = @ + 1]
    /\ response' = [response EXCEPT ![c] = r]
    /\ pc' = [pc EXCEPT ![c] = "extract"]
    /\ UNCHANGED <<validatorVars, extractorVars, endpointVars, serviceVars, request, stack, questions, validated, retval, result,
                   attempts, outcomes>>

\* variant: no transport retry, the first failed invocation raises
ServiceFails_NoRetry(c) ==
    /\ pc[c] = "call"
    /\ invocations' = [invocations EXCEPT ![c] = @ + 1]
    /\ tries' = [tries EXCEPT ![c] = @ + 1]
    /\ pc' = [pc EXCEPT ![c] = "except"]
    /\ Ended(c, "generr")
    /\ UNCHANGED <<validatorVars, extractorVars, endpointVars, serviceVars, request, stack, response, questions,
                   validated, retval, result, attempts>>

\* variant: the stop condition is off by one, a fourth invocation is made
ServiceFails_OneMore(c) ==
    /\ pc[c] = "call"
    /\ invocations' = [invocations EXCEPT ![c] = @ + 1]
    /\ tries' = [tries EXCEPT ![c] = @ + 1]
    /\ IF tries[c] + 1 > TransportAttempts
       THEN /\ pc' = [pc EXCEPT ![c] = "except"]
            /\ Ended(c, "generr")
       ELSE UNCHANGED <<pc, outcomes>>
    /\ UNCHANGED <<validatorVars, extractorVars, endpointVars, serviceVars, request, stack, response, questions,
                   validated, retval, result, attempts>>

\* one invocation of call_llm_api that throws; tenacity calls again until
\* stop_after_attempt(3), then raises into the try block
ServiceFails(c) ==
    /\ pc[c] = "call"
    /\ invocations' = [invocations EXCEPT ![c] = @ + 1]
    /\ tries' = [tries EXCEPT ![c] = @ + 1]
    /\ IF tries[c] + 1 >= TransportAttempts
       THEN /\ pc' = [pc EXCEPT ![c] = "except"]
            /\ Ended(c, "generr")
       ELSE UNCHANGED <<pc, outcomes>>
    /\ UNCHANGED <<validatorVars, extractorVars, endpointVars, serviceVars, request, stack, response, questions,
                   validated, retval, result, attempts>>

\* lines 176-180
Extract(c) ==
    /\ pc[c] = "extract"
    /\ \E o \in ExtractOutcomes(response[c]) :
         IF o.ok
         THEN /\ questions' = [questions EXCEPT ![c] = AsList(o)]
              /\ pc' = [pc EXCEPT ![c] = "validate"]
              /\ UNCHANGED outcomes
         ELSE /\ pc' = [pc EXCEPT ![c] = "except"]
              /\ Ended(c, "exterr")
              /\ UNCHANGED questions
    /\ UNCHANGED <<validatorVars, extractorVars, endpointVars, serviceVars, request, stack, tries, invocations, response, validated,
                   retval, result, attempts>>

\* lines 183-186
Validate(c) ==
    /\ pc[c] = "validate"
    /\ IF ValidationRaises(questions[c], request[c].question_type)
       THEN /\ pc' = [pc EXCEPT ![c] = "except"]
            /\ Ended(c, "valerr")
            /\ UNCHANGED validated
       ELSE /\ validated' = [validated EXCEPT ![c] =
                    ValidatedOf(questions[c], request[c].question_type)]
            /\ pc' = [pc EXCEPT ![c] = "check"]
            /\ UNCHANGED outcomes
    /\ UNCHANGED <<validatorVars, extractorVars, endpointVars, serviceVars, request, stack, tries, invocations, response, questions,
                   retval, result, attempts>>

\* variant: the retry is taken whenever retries are left, valid questions or not
RetryEmpty_IgnoresValid(c) ==
    /\ pc[c] = "check"
    /\ retries(c) > 0
    /\ Ended(c, "empty")
    /\ Enter(c, retries(c) - 1, "try")
    /\ UNCHANGED <<validatorVars, extractorVars, endpointVars, serviceVars, request, invocations, retval, result>>

\* variant: the retry for an empty result passes `retries` on unchanged
RetryEmpty_KeepsRetries(c) ==
    /\ pc[c] = "check"
    /\ validated[c] = <<>> /\ retries(c) > 0
    /\ Ended(c, "empty")
    /\ Enter(c, retries(c), "try")
    /\ UNCHANGED <<validatorVars, extractorVars, endpointVars, serviceVars, request, invocations, retval, result>>

\* lines 188-198: no valid question and retries left: recurse inside the try
RetryEmpty(c) ==
    /\ pc[c] = "check"
    /\ validated[c] = <<>> /\ retries(c) > 0
    /\ Ended(c, "empty")
    /\ Enter(c, retries(c) - 1, "try")
    /\ UNCHANGED <<validatorVars, extractorVars, endpointVars, serviceVars, request, invocations, retval, result>>

\* variant: the unfiltered `questions` are returned
ReturnValidated_Unfiltered(c) ==
    /\ pc[c] = "check"
    /\ ~(validated[c] = <<>> /\ retries(c) > 0)
    /\ Ended(c, IF validated[c] = <<>> THEN "empty" ELSE "ok")
    /\ retval' = [retval EXCEPT ![c] = questions[c]]
    /\ pc' = [pc EXCEPT ![c] = "return"]
    /\ UNCHANGED <<validatorVars, extractorVars, endpointVars, serviceVars, request, stack, tries, invocations, response,
                   questions, validated, result, attempts>>

\* line 200
ReturnValidated(c) ==
    /\ pc[c] = "check"
    /\ ~(validated[c] = <<>> /\ retries(c) > 0)
    /\ Ended(c, IF validated[c] = <<>> THEN "empty" ELSE "ok")
    /\ retval' = [retval EXCEPT ![c] = validated[c]]
    /\ pc' = [pc EXCEPT ![c] = "return"]
    /\ UNCHANGED <<validatorVars, extractorVars, endpointVars, serviceVars, request, stack, tries, invocations, response, questions,
                   validated, result, attempts>>

\* variant: `retries` is one module-level counter instead of a parameter:
\* the decrement of the handler is seen by every call that is running
RetryAfterError_SharedCounter(c) ==
    /\ pc[c] = "except"
    /\ retries(c) > 0
    /\ stack' = [d \in DOMAIN stack |->
                    IF d = c
                    THEN Append(stack[c], [retries |-> retries(c) - 1, site |-> "except"])
                    ELSE IF stack[d] = <<>> THEN stack[d]
                    ELSE [stack[d] EXCEPT ![Len(stack[d])].retries = @ - 1]]
    /\ attempts' = [attempts EXCEPT ![c] = @ + 1]
    /\ pc' = [pc EXCEPT ![c] = "build"]
    /\ response' = [response EXCEPT ![c] = NoResponse]
    /\ questions' = [questions EXCEPT ![c] = <<>>]
    /\ validated' = [validated EXCEPT ![c] = <<>>]
    /\ tries' = [tries EXCEPT ![c] = 0]
    /\ UNCHANGED <<validatorVars, extractorVars, endpointVars, serviceVars, request, invocations, retval, result, outcomes>>

\* variant: the handler recurses with `retries` instead of `retries - 1`
RetryAfterError_KeepsRetries(c) ==
    /\ pc[c] = "except"
    /\ retries(c) > 0
    /\ Enter(c, retries(c), "except")
    /\ UNCHANGED <<validatorVars, extractorVars, endpointVars, serviceVars, request, invocations, retval, result, outcomes>>

\* variant: the handler recurses with retries=0, one retry whatever is left
RetryAfterError_Once(c) ==
    /\ pc[c] = "except"
    /\ retries(c) > 0
    /\ Enter(c, 0, "except")
    /\ UNCHANGED <<validatorVars, extractorVars, endpointVars, serviceVars, request, invocations, retval, result, outcomes>>

\* lines 202-214: the handler recurses, outside any try
RetryAfterError(c) ==
    /\ pc[c] = "except"
    /\ retries(c) > 0
    /\ Enter(c, retries(c) - 1, "except")
    /\ UNCHANGED <<validatorVars, extractorVars, endpointVars, serviceVars, request, invocations, retval, result, outcomes>>

\* variant: the handler gives up while one retry is left (retries > 1)
GiveUp_Early(c) ==
    /\ pc[c] = "except"
    /\ ~(retries(c) > 1)
    /\ retval' = [retval EXCEPT ![c] = <<>>]
    /\ pc' = [pc EXCEPT ![c] = "return"]
    /\ UNCHANGED <<validatorVars, extractorVars, endpointVars, serviceVars, request, stack, tries, invocations, response,
                   questions, validated, result, attempts, outcomes>>

\* lines 215-217
GiveUp(c) ==
    /\ pc[c] = "except"
    /\ ~(retries(c) > 0)
    /\ retval' = [retval EXCEPT ![c] = <<>>]
    /\ pc' = [pc EXCEPT ![c] = "return"]
    /\ UNCHANGED <<validatorVars, extractorVars, endpointVars, serviceVars, request, stack, tries, invocations, response, questions,
                   validated, result, attempts, outcomes>>

\* a frame returns: "return generate_questions_from_content(...)" hands the
\* inner value on unchanged, the outermost frame hands it to the caller
Return(c) ==
    /\ pc[c] = "return"
    /\ stack' = [stack EXCEPT ![c] = Pop(@)]
    /\ IF Len(stack[c]) = 1
       THEN /\ result' = [result EXCEPT ![c] = retval[c]]
            /\ pc' = [pc EXCEPT ![c] = "done"]
       ELSE UNCHANGED <<result, pc>>
    /\ UNCHANGED <<validatorVars, extractorVars, endpointVars, serviceVars, request, tries, invocations, response, questions,
                   validated, retval, attempts, outcomes>>

\* an exception leaves a frame: it reaches the caller, the except clause
\* of the frame that recursed inside its try, or passes through the frame
\* that recursed from its handler
Raise(c) ==
    /\ pc[c] = "raising"
    /\ stack' = [stack EXCEPT ![c] = Pop(@)]
    /\ pc' = [pc EXCEPT ![c] = CASE Top(c).site = "caller" -> "raised"
                                 [] Top(c).site = "try"    -> "except"
                                 [] OTHER                  -> "raising"]
    /\ UNCHANGED <<validatorVars, extractorVars, endpointVars, serviceVars, request, tries, invocations, response, questions,
                   validated, retval, result, attempts, outcomes>>

\* one step of call c, the service answering with a text of R
StepOver(c, R) ==
    \/ Call(c)
    \/ BuildPrompt(c)
    \/ \E r \in R : ServiceReturns(c, r)
    \/ ServiceFails(c)
    \/ Extract(c)
    \/ Validate(c)
    \/ RetryEmpty(c)
    \/ ReturnValidated(c)
    \/ RetryAfterError(c)
    \/ GiveUp(c)
    \/ Return(c)
    \/ Raise(c)

Step(c) == StepOver(c, Responses)

InitOver(S) ==
    /\ request \in [S -> Requests]
    /\ pc = [c \in S |-> "idle"]
    /\ stack = [c \in S |-> <<>>]
    /\ tries = [c \in S |-> 0]
    /\ invocations = [c \in S |-> 0]
    /\ response = [c \in S |-> NoResponse]
    /\ questions = [c \in S |-> <<>>]
    /\ validated = [c \in S |-> <<>>]
    /\ retval = [c \in S |-> <<>>]
    /\ result = [c \in S |-> <<>>]
    /\ attempts = [c \in S |-> 0]
    /\ outcomes = [c \in S |-> <<>>]

\* the validator variables while no validator run is modelled
ValidatorIdle ==
    /\ candidate = NoQuestion
    /\ expectedType = "multiple_choice"
    /\ verdict = "none"

\* the extractor variables while no extractor run is modelled
Pending == [ok |-> FALSE, shape |-> "pending", items |-> <<>>]

ExtractorIdle ==
    /\ rawText = NoResponse
    /\ extracted = Pending
    /\ strategies = <<>>

\* the endpoint variables while no request to the endpoint is modelled
NoQuizRequest == [topic_id |-> 0, difficulty |-> "None", question_count |-> 5]

EndpointIdle ==
    /\ topics = {}
    /\ quizReq = NoQuizRequest
    /\ epc = "idle"
    /\ httpStatus = 0

\* the module is imported, with both settings found in the environment
ServiceReady ==
    /\ environ = [key |-> TRUE, model |-> TRUE]
    /\ LLM_API_KEY = "value"
    /\ ANTHROPIC_MODEL = "value"

\* one generate call
Init == InitOver({1}) /\ ValidatorIdle /\ ExtractorIdle /\ EndpointIdle /\ ServiceReady
Next == Step(1)
Spec == Init /\ [][Next]_vars

\* the interpreter keeps running the call until it returns or raises
FairSpec == Spec /\ WF_vars(Next)

\* ------------------------------------------------------------------------
\* validate_question alone, on every candidate of a bounded family
\* ------------------------------------------------------------------------
AnswerLists == UNION { [1..n -> AnswerValues] : n \in 0..MaxAnswers }

CandidateQuestions ==
    [kind : {"object"},
     text : {"q", "", "MISSING"},
     question_type : {"multiple_choice", "open_ended", "essay", "MISSING"},
     difficulty : {"easy", "bogus", "MISSING"},
     answers_kind : {"list"},
     answers : AnswerLists]
    \cup
    [kind : {"object"},
     text : {"q", ""},
     question_type : {"multiple_choice", "open_ended"},
     difficulty : {"easy", "bogus"},
     answers_kind : {"null", "missing"},
     answers : {<<>>}]
    \cup {NumberValue, EmptyString}

ValidateCandidate ==
    /\ verdict = "none"
    /\ verdict' = validate_question(candidate, expectedType)
    /\ UNCHANGED <<pipelineVars, extractorVars, endpointVars, serviceVars, candidate, expectedType>>

\* no generate call is made in the validator specification
IdleRequest ==
    [contents |-> <<"definition", "lesson">>, question_type |-> "multiple_choice",
     question_count |-> 1, retries |-> 0]

InitValidator ==
    /\ InitOver({1})
    /\ request[1] = IdleRequest
    /\ candidate \in CandidateQuestions
    /\ expectedType \in QuestionType
    /\ verdict = "none"
    /\ ExtractorIdle
    /\ EndpointIdle
    /\ ServiceReady

NextValidator == ValidateCandidate
SpecValidator == InitValidator /\ [][NextValidator]_vars

\* ------------------------------------------------------------------------
\* extract_json_from_response alone, on a bounded family of raw texts
\* ------------------------------------------------------------------------
ItemPool == {GoodMC, GoodOE, ThreeAnswers, StringCorrect, EmptyTextOE, NoDifficulty}

ItemLists == UNION { [1..n -> ItemPool] : n \in 0..MaxItems }

RawTexts ==
    { Raw("array", l) : l \in ItemLists }
    \cup { Raw("fenced", l) : l \in ItemLists }
    \cup { Raw("object", <<q>>) : q \in ItemPool }
    \cup { Raw("concat", <<q>>) : q \in ItemPool }
    \cup { Raw("number", <<NumberValue>>), Raw("prose", <<>>) }

ExtractRaw ==
    /\ extracted = Pending
    /\ extracted' \in ExtractOutcomes(rawText)
    /\ strategies' = StrategiesRun(rawText, extracted')
    /\ UNCHANGED <<pipelineVars, validatorVars, endpointVars, serviceVars, rawText>>

InitExtractor ==
    /\ InitOver({1})
    /\ request[1] = IdleRequest
    /\ ValidatorIdle
    /\ rawText \in RawTexts
    /\ extracted = Pending
    /\ strategies = <<>>
    /\ EndpointIdle
    /\ ServiceReady

NextExtractor == ExtractRaw
SpecExtractor == InitExtractor /\ [][NextExtractor]_vars

\* ------------------------------------------------------------------------
\* generate_quiz, the handler of POST /quizzes/generate
\* ------------------------------------------------------------------------
\* QuizRequest: topic_id, optional difficulty, question_count (default 5)
QuizRequests ==
    [topic_id : 1..(MaxTopic + 1), difficulty : DifficultyLevel \cup {"None"},
     question_count : {1, 5}]

\* content_service.get_topic_by_id: query.first(), the row or None
NoTopic == [found |-> FALSE, id |-> 0]

get_topic_by_id(db, topic_id) ==
    IF topic_id \in db THEN [found |-> TRUE, id |-> topic_id] ELSE NoTopic

\* how the call on lines 25-30 can end: llm_service defines no
\* get_questions_for_topic, so the attribute lookup raises AttributeError
\* before anything is called
QuestionsForTopicOutcomes == {"AttributeError"}

\* variant: the `topic is None` test of line 21 is left out
GetTopic_Unchecked ==
    /\ epc = "topic"
    /\ epc' = "questions"
    /\ UNCHANGED <<pipelineVars, validatorVars, extractorVars, serviceVars, topics, quizReq, httpStatus>>

\* lines 20-22: look the topic up, HTTPException(404) when there is none
GetTopic ==
    /\ epc = "topic"
    /\ IF get_topic_by_id(topics, quizReq.topic_id) = NoTopic
         THEN epc' = "responded" /\ httpStatus' = NotFound
         ELSE epc' = "questions" /\ UNCHANGED httpStatus
    /\ UNCHANGED <<pipelineVars, validatorVars, extractorVars, serviceVars, topics, quizReq>>

\* lines 25-42: the questions for the topic; an exception that is no
\* HTTPException leaves the handler and the framework answers 500, an empty
\* result is HTTPException(404), anything else is returned
GetQuestions ==
    /\ epc = "questions"
    /\ \E o \in QuestionsForTopicOutcomes :
           httpStatus' = CASE o = "AttributeError" -> ServerError
                           [] o = "empty"          -> NotFound
                           [] OTHER                -> Ok
    /\ epc' = "responded"
    /\ UNCHANGED <<pipelineVars, validatorVars, extractorVars, serviceVars, topics, quizReq>>

InitEndpoint ==
    /\ InitOver({1})
    /\ request[1] = IdleRequest
    /\ ValidatorIdle
    /\ ExtractorIdle
    /\ topics \in SUBSET (1..MaxTopic)
    /\ quizReq \in QuizRequests
    /\ epc = "topic"
    /\ httpStatus = 0
    /\ ServiceReady

NextEndpoint == GetTopic \/ GetQuestions
SpecEndpoint == InitEndpoint /\ [][NextEndpoint]_vars

\* ------------------------------------------------------------------------
\* two generate calls running concurrently (two request threads)
\* ------------------------------------------------------------------------
Calls == {1, 2}

\* the texts the service answers with: valid questions, or no JSON at all
PairResponses ==
    { Raw("array", <<GoodMC, GoodOE>>),
      Raw("prose", <<>>) }

\* the arguments of the two calls: they differ in the question type, the
\* first has up to MaxPairRetries retries, the second none or one
PairRequests ==
    { rq \in [Calls -> Requests] :
        /\ rq[1].question_type = "multiple_choice"
        /\ rq[1].contents = <<"definition", "lesson">>
        /\ rq[1].retries <= MaxPairRetries
        /\ rq[1].question_count = 1
        /\ rq[2].question_type = "open_ended"
        /\ rq[2].retries \in {0, 1}
        /\ rq[2].question_count = 2 }

InitPair ==
    /\ InitOver(Calls)
    /\ request \in PairRequests
    /\ ValidatorIdle
    /\ ExtractorIdle
    /\ EndpointIdle
    /\ ServiceReady

\* the threads are interleaved at will
NextPair == \E c \in Calls : StepOver(c, PairResponses)
SpecPair == InitPair /\ [][NextPair]_vars

\* ------------------------------------------------------------------------
\* the service from the import of the module on: lines 15-17 and one call
\* ------------------------------------------------------------------------
\* os.getenv(name): the value, or None when the variable is not set
getenv(present) == IF present THEN "value" ELSE "None"

\* lines 15-17, run once when the module is imported; nothing is checked
ImportModule ==
    /\ LLM_API_KEY = "unbound"
    /\ LLM_API_KEY' = getenv(environ.key)
    /\ ANTHROPIC_MODEL' = getenv(environ.model)
    /\ UNCHANGED <<pipelineVars, validatorVars, extractorVars, endpointVars, environ>>

\* lines 22-26: the provider refuses a key of None and the API a model of
\* None, on every invocation; only with both can an invocation return text
ServiceAnswers ==
    IF LLM_API_KEY = "value" /\ ANTHROPIC_MODEL = "value" THEN Responses ELSE {}

\* a step of the generate call, once the module is imported
ServedStep ==
    /\ LLM_API_KEY # "unbound"
    /\ StepOver(1, ServiceAnswers)

InitService ==
    /\ InitOver({1})
    /\ ValidatorIdle
    /\ ExtractorIdle
    /\ EndpointIdle
    /\ environ \in [key : BOOLEAN, model : BOOLEAN]
    /\ LLM_API_KEY = "unbound"
    /\ ANTHROPIC_MODEL = "unbound"

NextService == ImportModule \/ ServedStep
SpecService == InitService /\ [][NextService]_vars

\* ------------------------------------------------------------------------
\* Properties
\* ------------------------------------------------------------------------
AllOutcomes(c, kinds) ==
    \A i \in 1..Len(outcomes[c]) : outcomes[c][i] \in kinds

SomeOutcome(c, kind) ==
    \E i \in 1..Len(outcomes[c]) : outcomes[c][i] = kind

\* number of answers whose is_correct is the JSON boolean true
TrueCount(as) == Cardinality({i \in 1..Len(as) : as[i] = "true"})

\* the multiple-choice answer rule: at least 4 answers, exactly 1 true
MultipleChoiceRule(q) ==
    /\ q.answers_kind = "list"
    /\ Len(q.answers) >= MinAnswers
    /\ TrueCount(q.answers) = 1

\* the validator rules as the specification lists them
MeetsValidatorRules(q, qt) ==
    /\ q.kind = "object"
    /\ q.text \notin {"", "MISSING"}
    /\ q.question_type = qt
    /\ q.difficulty \in DifficultyLevel
    /\ q.answers_kind = "list" /\ q.answers # <<>>
    /\ q.question_type = "multiple_choice" => MultipleChoiceRule(q)

\* C1: generate never fails to its caller: whatever the input and whatever
\* raises in prompt building, the service call, extraction or validation,
\* no exception escapes the call.
C1_NeverRaises == pc[1] # "raised"

\* C2: in every reachable state of a generate call with maxRetries = N the
\* number of generation attempts started so far is at most N + 1.
C2_AttemptsBounded == attempts[1] <= request[1].retries + 1

C2_Witness ==
    /\ pc[1] = "done"
    /\ request[1].retries = MaxRetries
    /\ attempts[1] = MaxRetries + 1
    /\ SomeOutcome(1, "generr") /\ SomeOutcome(1, "empty")

\* C3: when the service call fails in every attempt, a call with
\* maxRetries = N ends after exactly N + 1 attempts with the empty sequence.
C3_AlwaysGenerationError ==
    (pc[1] = "done" /\ AllOutcomes(1, {"generr"}))
        => /\ attempts[1] = request[1].retries + 1
           /\ Len(outcomes[1]) = request[1].retries + 1
           /\ result[1] = <<>>

C3_Witness ==
    /\ pc[1] = "done"
    /\ request[1].retries = 2
    /\ outcomes[1] = <<"generr", "generr", "generr">>
    /\ attempts[1] = 3
    /\ result[1] = <<>>

\* C4: when no attempt leaves a validated question, the call makes exactly
\* maxRetries + 1 attempts and returns the empty sequence; and no call ever
\* returns a candidate that validate_question did not accept.
C4_AllInvalidExhausts ==
    /\ (pc[1] = "done" /\ AllOutcomes(1, {"empty", "valerr"}))
           => /\ attempts[1] = request[1].retries + 1
              /\ result[1] = <<>>
    /\ pc[1] = "done" =>
           \A i \in 1..Len(result[1]) :
               validate_question(result[1][i], request[1].question_type) = "true"

C4_Witness ==
    /\ pc[1] = "done"
    /\ request[1].retries = MaxRetries
    /\ Len(outcomes[1]) = MaxRetries + 1
    /\ AllOutcomes(1, {"empty"})
    /\ questions[1] = <<ThreeAnswers, NoDifficulty>>
    /\ response[1] = Raw("array", <<ThreeAnswers, NoDifficulty>>)
    /\ result[1] = <<>>

\* C5: every question of the returned sequence satisfies all validator
\* rules with respect to the requested type: non-empty text, question_type
\* equal to the requested type, difficulty in {easy, medium, hard},
\* non-empty answers, and the multiple-choice answer rule.
C5_ResultMeetsRules ==
    pc[1] = "done" =>
        \A i \in 1..Len(result[1]) :
            MeetsValidatorRules(result[1][i], request[1].question_type)

\* C6: every returned question of type multiple_choice has at least 4
\* answers and exactly 1 answer with is_correct = true.
C6_ResultMultipleChoice ==
    pc[1] = "done" =>
        \A i \in 1..Len(result[1]) :
            result[1][i].question_type = "multiple_choice"
                => MultipleChoiceRule(result[1][i])

Succeeded(c) ==
    /\ pc[c] = "done"
    /\ result[c] # <<>>
    /\ \A i \in 1..Len(result[c]) :
           validate_question(result[c][i], request[c].question_type) = "true"

Exhausted(c) ==
    /\ pc[c] = "done"
    /\ result[c] = <<>>
    /\ attempts[c] = request[c].retries + 1

FirstResponseIsGoodMC ==
    /\ attempts[1] = 1
    /\ invocations[1] = 1
    /\ response[1] = Raw("array", <<GoodMC>>)

\* C8: an attempt that yields a non-empty validated sequence is the last
\* one: that sequence is returned, no further attempt starts and no further
\* service call is made; when the first service response is one well-formed
\* multiple-choice question the result is that one question after 1 attempt.
C8_ReturnsAtOnce ==
    /\ [](\A i \in 1..Len(outcomes[1]) :
              outcomes[1][i] = "ok"
                  => /\ i = attempts[1]
                     /\ pc[1] \in {"return", "done"}
                     /\ validated[1] # <<>>
                     /\ retval[1] = validated[1]
                     /\ pc[1] = "done" => result[1] = validated[1])
    /\ [](FirstResponseIsGoodMC
              => /\ pc[1] \in {"extract", "validate", "check", "return", "done"}
                 /\ pc[1] = "done" => result[1] = <<GoodMC>>)
    /\ [][FirstResponseIsGoodMC => FirstResponseIsGoodMC']_vars
    /\ [][SomeOutcome(1, "ok")
              => /\ attempts'[1] = attempts[1]
                 /\ invocations'[1] = invocations[1]]_vars

C8_Witness ==
    /\ pc[1] = "done"
    /\ FirstResponseIsGoodMC
    /\ result[1] = <<GoodMC>>
    /\ attempts[1] = 1
    /\ invocations[1] = 1
    /\ outcomes[1] = <<"ok">>

\* the candidate is an object carrying the four fields, its answers a list
\* of objects
WellShaped(q) ==
    /\ q.kind = "object"
    /\ HasRequiredFields(q)
    /\ q.answers_kind = "list"
    /\ \A i \in 1..Len(q.answers) : q.answers[i] # "notobj"

\* C9: for a multiple-choice candidate with the other required fields
\* present, validate returns false when it has fewer than 4 answers or not
\* exactly 1 answer with is_correct == true, and true when it has at least
\* 4 answers and exactly one with is_correct == true.
C9_MultipleChoiceSoundness ==
    (/\ verdict # "none"
     /\ WellShaped(candidate)
     /\ candidate.question_type = "multiple_choice")
        => verdict = IF MultipleChoiceRule(candidate) THEN "true" ELSE "false"

\* C10: validate returns false for every candidate whose question_type
\* differs from the requested type.
C10_TypeMismatchRejected ==
    (/\ verdict # "none"
     /\ WellShaped(candidate)
     /\ candidate.question_type # expectedType)
        => verdict = "false"


\* C11: validate returns false for every candidate whose difficulty is not
\* one of easy, medium, hard, whatever its other fields are.
C11_BadDifficultyRejected ==
    (/\ verdict # "none"
     /\ WellShaped(candidate)
     /\ candidate.difficulty \notin DifficultyLevel)
        => verdict = "false"

\* C12: validate returns false for every candidate, of either type, whose
\* text is empty or whose answers sequence is empty; an open_ended
\* candidate whose other fields are valid is accepted with any non-zero
\* number of answers, however many of them are marked correct.
C12_EmptyTextOrAnswersRejected ==
    /\ (/\ verdict # "none"
        /\ WellShaped(candidate)
        /\ candidate.question_type \in QuestionType
        /\ candidate.text = "" \/ candidate.answers = <<>>)
           => verdict = "false"
    /\ (/\ verdict # "none"
        /\ WellShaped(candidate)
        /\ candidate.question_type = "open_ended"
        /\ expectedType = "open_ended"
        /\ candidate.text = "q"
        /\ candidate.difficulty \in DifficultyLevel
        /\ candidate.answers # <<>>)
           => verdict = "true"

\* C13: validate is a total predicate: on every candidate shape, also a
\* candidate that is not an object, a missing field, answers that are not
\* a sequence or an answer that is not an object, it returns false and
\* raises no exception.
Malformed(q) ==
    \/ q.kind # "object"
    \/ ~HasRequiredFields(q)
    \/ q.answers_kind # "list"
    \/ \E i \in 1..Len(q.answers) : q.answers[i] = "notobj"

C13_ValidateIsTotal ==
    verdict # "none" =>
        /\ verdict # "raise"
        /\ Malformed(candidate) => verdict = "false"


\* C14: call_llm_api_with_retry invokes the service at most 3 times per
\* call; it returns the text of the first invocation that succeeds and
\* invokes the service no more, and it raises only after 3 consecutive
\* failed invocations.
C14_TransportRetry ==
    /\ [](tries[1] <= TransportAttempts)
    /\ [][(pc[1] = "call" /\ pc'[1] = "extract")
              => /\ response'[1] \in Responses
                 /\ tries'[1] = tries[1] + 1
                 /\ invocations'[1] = invocations[1] + 1]_vars
    /\ [][pc[1] \in {"extract", "validate", "check", "return"}
              => invocations'[1] = invocations[1]]_vars
    /\ [][(pc[1] = "call" /\ pc'[1] = "except")
              => /\ tries[1] = TransportAttempts - 1
                 /\ tries'[1] = TransportAttempts]_vars

C14_Witness ==
    /\ pc[1] = "extract"
    /\ tries[1] = TransportAttempts
    /\ invocations[1] = TransportAttempts
    /\ response[1] = Raw("array", <<GoodMC>>)


\* C15: for a raw text that is itself a valid JSON array of question
\* objects, extract returns exactly those objects, in the same order.
C15_CleanArray ==
    (extracted # Pending /\ rawText.form = "array")
        => extracted = Returned("list", rawText.items)

C15_Witness ==
    /\ rawText = Raw("array", <<ThreeAnswers, GoodMC>>)
    /\ extracted = Returned("list", <<ThreeAnswers, GoodMC>>)

\* C16: for a raw text made of one well-formed JSON object followed by a
\* truncated or malformed object, extract succeeds and returns exactly the
\* well-formed object.
C16_PartialRecovery ==
    (extracted # Pending /\ rawText.form = "concat")
        => /\ extracted.ok
           /\ extracted.items = <<rawText.items[1]>>

YieldsObject(o) ==
    o.ok /\ \E i \in 1..Len(o.items) : o.items[i].kind = "object"

\* some strategy of the extraction recovers an object from the text
CanRecover(raw) ==
    \/ YieldsObject(Loads(raw))
    \/ \E r \in RepairOutcomes(raw) : YieldsObject(r)
    \/ \E f \in FallbackOutcomes(raw) : YieldsObject(f)

\* C18: extract fails exactly when none of its strategies yields any
\* object: it returns a result whenever some strategy can recover an
\* object, and otherwise it raises rather than return an empty value.
C18_FailsIffNothingRecovered ==
    extracted # Pending =>
        /\ extracted.ok <=> CanRecover(rawText)
        /\ extracted.ok => YieldsObject(extracted)


\* C19: generate_quiz for a topic id the database does not know ends with
\* the 404 response and is not retried: no generation attempt and no call
\* to the generation service is made for it.
C19_UnknownTopicNotFound ==
    (epc = "responded" /\ quizReq.topic_id \notin topics)
        => /\ httpStatus = NotFound
           /\ attempts[1] = 0
           /\ invocations[1] = 0
           /\ pc[1] = "idle"

C19_Witness ==
    /\ epc = "responded"
    /\ topics = {1, 3}
    /\ quizReq.topic_id = 2
    /\ httpStatus = NotFound

\* C20: for an existing topic the endpoint ends only with a non-empty list
\* of questions (200) or with the not-found response for an empty result
\* (404); nothing surfaces to the caller as a server (500-style) error.
C20_NoServerError ==
    (epc = "responded" /\ quizReq.topic_id \in topics)
        => httpStatus \in {Ok, NotFound}


\* everything a call holds: its arguments, its frames and locals, its counts
CallState(c) ==
    <<request[c], pc[c], stack[c], tries[c], invocations[c], response[c],
      questions[c], validated[c], retval[c], result[c], attempts[c], outcomes[c]>>

\* an attempt of the call is running or has left by an exception
AttemptOpen(c) ==
    pc[c] \in {"build", "call", "extract", "validate", "check", "raising", "raised"}

\* what a call running alone holds, told from its own arguments, the
\* answers to its own service calls and how its own attempts ended
AsAlone(c) ==
    /\ \A i \in 1..Len(stack[c]) :
           stack[c][i].retries = request[c].retries - (i - 1)
    /\ attempts[c] = Len(outcomes[c]) + (IF AttemptOpen(c) THEN 1 ELSE 0)
    /\ attempts[c] <= request[c].retries + 1
    /\ invocations[c] <= TransportAttempts * attempts[c]
    /\ pc[c] = "done" =>
           /\ attempts[c] = Len(outcomes[c])
           /\ result[c] = IF outcomes[c][Len(outcomes[c])] = "ok"
                          THEN ValidatedOf(questions[c], request[c].question_type)
                          ELSE <<>>
           /\ outcomes[c][Len(outcomes[c])] = "ok" =>
                  /\ response[c] \in PairResponses
                  /\ \E o \in ExtractOutcomes(response[c]) :
                         o.ok /\ questions[c] = AsList(o)

\* C21: two generate calls running concurrently share no mutable state:
\* under every interleaving a step of one call leaves everything the other
\* holds unchanged, and each call's remaining-retry counter, attempt count
\* and result are those it has running alone, told from its own arguments
\* and the service responses to its own calls.
C21_CallsIndependent ==
    /\ [](\A c \in Calls : AsAlone(c))
    /\ [][\A c \in Calls : \A d \in Calls \ {c} :
              CallState(c)' # CallState(c) => CallState(d)' = CallState(d)]_vars

C21_Witness ==
    /\ pc[1] = "done" /\ attempts[1] = 2 /\ result[1] = <<GoodMC, GoodOE>>
    /\ outcomes[1] = <<"generr", "ok">>
    /\ pc[2] = "validate" /\ attempts[2] = 2
    /\ outcomes[2] = <<"empty">>
    /\ response[2] = Raw("prose", <<>>)


\* C22: generate never returns more questions than question_count: also
\* when the service response holds more valid questions than requested the
\* result has at most question_count elements.
C22_AtMostRequested ==
    pc[1] = "done" => Len(result[1]) <= request[1].question_count

\* the candidates of qs that pass validation, in their order
RECURSIVE PassingOf(_, _)
PassingOf(qs, qt) ==
    IF qs = <<>> THEN <<>>
    ELSE IF validate_question(Head(qs), qt) = "true"
         THEN <<Head(qs)>> \o PassingOf(Tail(qs), qt)
         ELSE PassingOf(Tail(qs), qt)

\* C23: the sequence returned by generate is exactly the subsequence of
\* the candidates extracted in the last attempt that pass validation, in
\* their extracted order and unmodified; nothing of an earlier attempt is
\* carried over and nothing is added.
C23_ExactlyLastAttemptsValid ==
    pc[1] = "done" =>
        result[1] = PassingOf(questions[1], request[1].question_type)

\* the running attempt of the call has failed: an exception reached the
\* handler, or the validated sequence is empty
AttemptFailed(c) ==
    \/ pc[c] = "except"
    \/ pc[c] = "check" /\ validated[c] = <<>>

\* the step starts one new full attempt with one retry less
StartsNewAttempt(c) ==
    /\ pc'[c] = "build"
    /\ Len(stack'[c]) = Len(stack[c]) + 1
    /\ stack'[c][Len(stack'[c])].retries = retries(c) - 1
    /\ attempts'[c] = attempts[c] + 1
    /\ tries'[c] = 0
    /\ response'[c] = NoResponse
    /\ questions'[c] = <<>>
    /\ validated'[c] = <<>>

\* C24: every failed attempt consumes exactly one retry, whatever the kind
\* of failure: after an attempt that ends in a generation error, an
\* extraction error or an empty validated sequence, if remaining > 0 then
\* remaining decreases by exactly 1 and one new full attempt starts; if
\* remaining = 0 the call returns the empty sequence.  The remaining
\* counter never becomes negative.
C24_FailureConsumesOneRetry ==
    /\ [](\A i \in 1..Len(stack[1]) : stack[1][i].retries >= 0)
    /\ [][(AttemptFailed(1) /\ pc'[1] # pc[1])
              => IF retries(1) > 0
                 THEN StartsNewAttempt(1)
                 ELSE pc'[1] = "return" /\ retval'[1] = <<>>]_vars
    /\ []((pc[1] = "done" /\ ~SomeOutcome(1, "ok")) => result[1] = <<>>)

C24_Witness ==
    /\ pc[1] = "done"
    /\ outcomes[1] = <<"generr", "exterr", "empty">>
    /\ attempts[1] = 3
    /\ stack[1] = <<>>
    /\ result[1] = <<>>

\* C25: the transport retry repeats only failed invocations: when an
\* invocation returns text, call_llm_api_with_retry returns that text after
\* that invocation, whatever it holds, and the service is not invoked again
\* until generate itself starts a new attempt.
C25_OnlyTransportRetried ==
    /\ [][(pc[1] = "call" /\ response'[1] # NoResponse)
              => /\ pc'[1] = "extract"
                 /\ tries'[1] = tries[1] + 1
                 /\ invocations'[1] = invocations[1] + 1]_vars
    /\ [][invocations'[1] # invocations[1]
              => pc[1] = "call" /\ response[1] = NoResponse]_vars
    /\ [](pc[1] \in {"extract", "validate", "check"}
              => response[1] \in Responses /\ tries[1] \in 1..TransportAttempts)
    /\ [][(pc[1] \in {"extract", "validate", "check"} /\ pc'[1] # "build")
              => tries'[1] = tries[1] /\ response'[1] = response[1]]_vars

C25_Witness ==
    /\ pc[1] = "except"
    /\ outcomes[1] = <<"exterr">>
    /\ response[1] = Raw("prose", <<>>)
    /\ tries[1] = 1
    /\ invocations[1] = 1
    /\ attempts[1] = 1


\* C28: within one generate call with maxRetries = N the total number of
\* invocations of the service is at most 3 * (N + 1), and it is exactly
\* 3 * (N + 1) when every invocation fails.
C28_InvocationBound ==
    /\ invocations[1] <= TransportAttempts * (request[1].retries + 1)
    /\ invocations[1] <= TransportAttempts * attempts[1]
    /\ (pc[1] = "done" /\ AllOutcomes(1, {"generr"}))
           => invocations[1] = TransportAttempts * (request[1].retries + 1)

C28_Witness ==
    /\ pc[1] = "done"
    /\ request[1].retries = 2
    /\ AllOutcomes(1, {"generr"})
    /\ invocations[1] = 9
    /\ tries[1] = 3


\* the order of the strategies as the specification gives it
StrategyOrder == <<"whole", "repair", "array", "fenced", "scan">>

IsPrefix(p, q) == Len(p) <= Len(q) /\ SubSeq(q, 1, Len(p)) = p

\* C26: extract tries its strategies in the fixed order whole-text parse,
\* JSON repair, array substring, fenced code block, individual-object scan:
\* a strategy is attempted if and only if every earlier one failed, the
\* result is that of the first strategy that succeeds, and the failure of
\* any one strategy leads to the next one rather than ending the extraction.
C26_StrategyOrder ==
    extracted # Pending =>
        /\ strategies # <<>>
        /\ IsPrefix(strategies, StrategyOrder)
        /\ ~extracted.ok => strategies = StrategyOrder


\* C27: the API key and the model identifier are resolved once, at
\* construction, and when either is absent the failure happens there,
\* before any generate call is served: it does not show up as a per-call
\* failure that consumes transport retries and generation attempts.
C27_FailsAtConstruction ==
    /\ LLM_API_KEY # "unbound" => LLM_API_KEY = getenv(environ.key)
    /\ ANTHROPIC_MODEL # "unbound" => ANTHROPIC_MODEL = getenv(environ.model)
    /\ ~(environ.key /\ environ.model)
           => /\ pc[1] = "idle"
              /\ attempts[1] = 0
              /\ invocations[1] = 0

====
